---- MODULE Spec2Model ----
(***************************************************************************)
(* Workspace Manager (src/app.js): an Express application over a document  *)
(* store (users, projects, tasks) with a WebSocket push channel that       *)
(* delivers recomputed statistics after every mutating request.            *)
(*                                                                         *)
(* Node runs one handler segment at a time; handlers interleave at their   *)
(* await points.  Every action below is one such segment: the code between *)
(* two awaits, or one store operation executing at the store.              *)
(***************************************************************************)
EXTENDS Integers, Sequences, FiniteSets, TLC

VARIABLES
    env,        \* process.env: [uri, secret]
    proc,       \* "init" | "listening" | "exited"
    users,      \* User collection: Seq of [name, email, passwordHash]
    projects,   \* Project collection: Seq of [title, progress]; _id = index
    tasks,      \* Task collection: Seq of [title, completed, projectId]
    reqs,       \* in-flight HTTP requests, one record per handler slot
    conns,      \* WebSocket connections: readyState, handler position, inbox
                \* (the messages delivered), fails (transport broken), lost
    ver,        \* history: number of writes applied to projects/tasks
    nreq,       \* history: number of requests accepted so far
    tog,        \* history: per task id, its toggles (see NoToggles)
    hist        \* history: the store after each write, hist[v + 1] at version v

vars == <<env, proc, users, projects, tasks, reqs, conns, ver, nreq, tog, hist>>

(***************************************************************************)
(* Bounds of the model.                                                    *)
(***************************************************************************)
NumSlots == 2       \* requests in flight at once
NumConns == 2       \* push connections ever opened
MaxReq == 2         \* requests accepted in one run
IdRange == 2        \* well-formed ids a request may name: 1..IdRange
MaxTasks == 40      \* tasks a store may hold

Slots == 1..NumSlots
Conns == 1..NumConns

\* A malformed id (not an ObjectId); well-formed ids are 1, 2, ...
BadId == 0
ParamIds == {BadId} \cup (1..IdRange)

(***************************************************************************)
(* Number arithmetic of computeStats.  JavaScript numbers are IEEE-754     *)
(* binary64: a positive value is kept as its 53-bit significand m (most    *)
(* significant bit first, m[1] = 1) and the exponent e of that leading bit,*)
(* value = (m[1].m[2]...m[53])_2 * 2^e.  Division and multiplication round *)
(* the exact result to nearest, ties to even.                              *)
(***************************************************************************)
Prec == 53

RECURSIVE BitsNat(_)
\* the number a short digit sequence (most significant digit first) stands for
BitsNat(b) == IF b = <<>> THEN 0 ELSE 2 * BitsNat(SubSeq(b, 1, Len(b) - 1)) + b[Len(b)]

\* the w binary digits of n, most significant first, for n < 2^w
NatBits(n, w) == [i \in 1..w |-> (n \div (2 ^ (w - i))) % 2]

\* b without its leading zeros (b holds a 1)
Strip(b) ==
    LET first == CHOOSE i \in 1..Len(b) : b[i] = 1 /\ \A j \in 1..(i - 1) : b[j] = 0
    IN  SubSeq(b, first, Len(b))

\* b + 1 on Len(b) digits, for b not all ones
Inc(b) ==
    LET last == CHOOSE i \in 1..Len(b) : b[i] = 0 /\ \A j \in (i + 1)..Len(b) : b[j] = 1
    IN  [i \in 1..Len(b) |-> IF i < last THEN b[i] ELSE IF i = last THEN 1 ELSE 0]

\* Round an exact digit string b (leading digit 1 of weight 2^e, more than
\* Prec digits long; tail: non-zero digits follow b) to Prec digits.
RoundNearestEven(b, e, tail) ==
    LET keep == SubSeq(b, 1, Prec)
        guard == b[Prec + 1]
        sticky == tail \/ \E i \in (Prec + 2)..Len(b) : b[i] = 1
        up == guard = 1 /\ (sticky \/ keep[Prec] = 1)
    IN  IF ~up THEN [m |-> keep, e |-> e]
        ELSE IF \A i \in 1..Prec : keep[i] = 1
             THEN [m |-> [i \in 1..Prec |-> IF i = 1 THEN 1 ELSE 0], e |-> e + 1]
        ELSE [m |-> Inc(keep), e |-> e]

RECURSIVE Norm(_, _)
\* how many doublings bring n up to at least t
Norm(n, t) == IF n >= t THEN 0 ELSE 1 + Norm(2 * n, t)

RECURSIVE PowMod(_, _)
\* 2^k mod t, by repeated squaring
PowMod(k, t) ==
    IF k = 0 THEN 1 % t
    ELSE LET h == PowMod(k \div 2, t)
         IN  IF k % 2 = 0 THEN (h * h) % t ELSE (2 * h * h) % t

\* the remainder of long division of r by t after k quotient digits, r < t
DivRem(r, t, k) == (r * PowMod(k, t)) % t

\* the first k quotient digits of r / t, 0 <= r < t
DivBits(r, t, k) ==
    [i \in 1..k |-> IF 2 * DivRem(r, t, i - 1) >= t THEN 1 ELSE 0]

\* completedTasks / totalTasks for 0 < c <= t
FDiv(c, t) ==
    LET s == Norm(c, t)
        n == c * (2 ^ s)
    IN  RoundNearestEven(<<1>> \o DivBits(n - t, t, Prec), 0 - s,
                         DivRem(n - t, t, Prec) # 0)

\* Multiplication works on five limbs of LimbBits digits each.
LimbBits == 13
Base == 2 ^ LimbBits

\* limb j (0 = least significant) of the digit string b, Len(b) <= 65
Limb(b, j) ==
    LET hi == Len(b) - LimbBits * j
        lo == hi - LimbBits + 1
    IN  IF hi < 1 THEN 0 ELSE BitsNat(SubSeq(b, IF lo < 1 THEN 1 ELSE lo, hi))

\* the digits of the limbs l0 (least significant) .. l4 times k
MulLimbs(l0, l1, l2, l3, l4, k) ==
    LET v0 == l0 * k
        v1 == l1 * k + (v0 \div Base)
        v2 == l2 * k + (v1 \div Base)
        v3 == l3 * k + (v2 \div Base)
        v4 == l4 * k + (v3 \div Base)
    IN  Strip(NatBits(v4 \div Base, LimbBits) \o NatBits(v4 % Base, LimbBits)
              \o NatBits(v3 % Base, LimbBits) \o NatBits(v2 % Base, LimbBits)
              \o NatBits(v1 % Base, LimbBits) \o NatBits(v0 % Base, LimbBits))

\* the exact digits of b * k, for a small k >= 1
MulBits(b, k) ==
    MulLimbs(Limb(b, 0), Limb(b, 1), Limb(b, 2), Limb(b, 3), Limb(b, 4), k)

\* x * k for a small integer k >= 2
FMul(x, k) ==
    LET p == MulBits(x.m, k)
    IN  RoundNearestEven(p, x.e + Len(p) - Prec, FALSE)

\* Math.round(x): floor(x + 0.5) taken exactly, for 0 < x < 2^Prec
MathRound(x) ==
    LET int == IF x.e < 0 THEN 0 ELSE BitsNat(SubSeq(x.m, 1, x.e + 1))
        half == IF x.e < 0 - 1 THEN 0 ELSE x.m[x.e + 2]
    IN  int + half

\* Math.round((completedTasks / totalTasks) * 100), totalTasks > 0
Round100(completedTasks, totalTasks) ==
    IF completedTasks = 0 THEN 0
    ELSE MathRound(FMul(FDiv(completedTasks, totalTasks), 100))

\* the same, evaluated once for every pair of counts the model can reach
PercentTable == [t \in 1..MaxTasks |-> [c \in 0..t |-> Round100(c, t)]]

Percent(completedTasks, totalTasks) == PercentTable[totalTasks][completedTasks]

(***************************************************************************)
(* Helpers: computeStats and the messages of the push channel.             *)
(***************************************************************************)
\* a progress that is not read from the stored field
ZeroProgress(progress) == 0

\* p.progress || 0
OrZero(progress) == IF progress = 0 THEN 0 ELSE progress

\* the aggregation of computeStats over the two collections it has read
computeStats(ps, ts) ==
    LET totalProjects == Len(ps)
        totalTasks == Len(ts)
        completedTasks == Cardinality({i \in 1..Len(ts) : ts[i].completed})
        overallCompletion ==
            IF totalTasks > 0 THEN Percent(completedTasks, totalTasks) ELSE 0
        formattedProjects ==
            [i \in 1..Len(ps) |->
                [id |-> i, name |-> ps[i].title, progress |-> OrZero(ps[i].progress)]]
    IN  [totalProjects |-> totalProjects,
         totalTasks |-> totalTasks,
         overallCompletion |-> overallCompletion,
         projects |-> formattedProjects]

\* the content of JSON.stringify({ type: "info", message: ... })
InfoMessage == [type |-> "info", message |-> "Connected to live updates"]

\* the content of JSON.stringify({ type: "stats", data: stats })
StatsMessage(stats) == [type |-> "stats", data |-> stats]

\* wss.clients: the sockets the server tracks (OPEN or CLOSING)
Clients == {c \in Conns : conns[c].readyState \in {1, 2}}

\* the forEach without its readyState test
SendAlways(client, message) == [client EXCEPT !.inbox = Append(@, message)]

\* the readyState test of the forEach inverted
SendUnlessOpen(client, message) ==
    IF client.readyState # 1
    THEN [client EXCEPT !.inbox = Append(@, message)]
    ELSE client

\* client.send(message) inside the forEach of broadcastStats.  send() on an
\* OPEN socket returns normally; when the transport of the socket has failed
\* the frame is lost and the ws library closes the socket by itself later.
Send(client, message) ==
    IF client.readyState = 1
    THEN IF client.fails
         THEN [client EXCEPT !.lost = TRUE]
         ELSE [client EXCEPT !.inbox = Append(@, message)]
    ELSE client

\* the forEach given up at the first socket whose send fails
FanoutUntilFailure(message) ==
    [c \in Conns |->
        IF \E o \in 1..c : conns[o].readyState = 1 /\ conns[o].fails
        THEN conns[c]
        ELSE IF c \in Clients THEN Send(conns[c], message) ELSE conns[c]]

\* wss.clients.forEach(...) of broadcastStats
Fanout(message) ==
    [c \in Conns |-> IF c \in Clients THEN Send(conns[c], message) ELSE conns[c]]

(***************************************************************************)
(* Responses.                                                              *)
(***************************************************************************)
NoRes == [status |-> 0, kind |-> "none", target |-> "", error |-> "", cookie |-> "keep"]

\* res.cookie("token", jwt.sign({ id, email }, JWT_SECRET, ...)) on a response
SetCookie(res) == [res EXCEPT !.cookie = "set"]

\* res.clearCookie("token") on a response
ClearCookie(res) == [res EXCEPT !.cookie = "clear"]

\* res.redirect(target)
Redirect(target) ==
    [status |-> 302, kind |-> "redirect", target |-> target, error |-> "", cookie |-> "keep"]

\* res.render(view, { error })
Render(view, error) ==
    [status |-> 200, kind |-> "render", target |-> view, error |-> error, cookie |-> "keep"]

\* the error view rendered without res.status(500)
ErrorHandlerNoStatus(err) ==
    [status |-> 200, kind |-> "render", target |-> "error", error |-> err, cookie |-> "keep"]

\* the error handler reached through next(err): res.status(500).render("error")
ErrorHandler(err) ==
    [status |-> 500, kind |-> "render", target |-> "error", error |-> err, cookie |-> "keep"]

(***************************************************************************)
(* Requests.                                                               *)
(***************************************************************************)
NoBody == [title |-> "", name |-> "", email |-> "", password |-> "", confirmPassword |-> ""]
Unread == [done |-> FALSE, ver |-> 0, docs |-> <<>>]
NoTask == [id |-> 0, completed |-> FALSE]
NoStats == computeStats(<<>>, <<>>)

\* A request: its input (route, token, id, body), what the middleware attached
\* (user), the handler's position and locals (task: the task document loaded
\* by the toggle; found: the index of the user or project a lookup returned;
\* rp, rt: the collections read; stats, list: what is rendered or broadcast),
\* its response, and history (u0: the number of users when it arrived; wver:
\* the store version its own write produced; bcast: it has broadcast).
IdleReq ==
    [route |-> "none", pc |-> "idle", token |-> "none", user |-> FALSE,
     id |-> 0, body |-> NoBody,
     task |-> NoTask, found |-> 0, rp |-> Unread, rt |-> Unread,
     stats |-> NoStats, list |-> <<>>, res |-> NoRes,
     u0 |-> 0, wver |-> 0, bcast |-> FALSE]

NoConn ==
    [readyState |-> 0, pc |-> "none", inbox |-> <<>>,
     rp |-> Unread, rt |-> Unread, openVer |-> 0, init |-> 0,
     fails |-> FALSE, lost |-> FALSE]

\* a socket that has closed: nothing of it can be observed any more
ClosedConn == [NoConn EXCEPT !.readyState = 3, !.pc = "done"]

\* the credentials a request may carry in its cookie: none, one that no
\* longer verifies, one that verifies
Tokens == {"none", "expired", "valid"}

\* middleware/auth authMiddleware: req.user is attached iff the token verifies
authMiddleware(token) == token = "valid"

\* middleware/auth requireAuth: TRUE = next(), FALSE = res.redirect("/login")
requireAuth(user) == user

\* GET /tasks registered without requireAuth
ProtectedButTasks(route) ==
    route \in {"GET /", "GET /projects", "GET /projects/new", "POST /projects",
               "GET /projects/:id", "POST /projects/:id/tasks",
               "POST /tasks/:id/toggle", "/api/projects"}

\* the routes registered with requireAuth in their chain
Protected(route) ==
    route \in {"GET /", "GET /projects", "GET /projects/new", "POST /projects",
               "GET /projects/:id", "POST /projects/:id/tasks",
               "POST /tasks/:id/toggle", "GET /tasks", "/api/projects"}

\* a || b on strings
Or(a, b) == IF a # "" THEN a ELSE b

(***************************************************************************)
(* Documents as the schemas of models/ build them.                         *)
(***************************************************************************)
\* Project.create({ title, description, progress })
ProjectDoc(title, progress) == [title |-> title, progress |-> progress]

\* Task.create({ title, projectId }): completed defaults to false
TaskDoc(title, projectId) == [title |-> title, completed |-> FALSE, projectId |-> projectId]

(***************************************************************************)
(* Initial states: the environment is any of the four configurations, and  *)
(* the store is empty or holds earlier data.                               *)
(***************************************************************************)
SeedStores ==
    {[projects |-> <<ProjectDoc("P", 40)>>,
      tasks |-> <<[title |-> "t", completed |-> TRUE, projectId |-> 1]>>]}

\* history of the toggles of one task id: orig is the completed flag the task
\* starts with, saves counts the toggle saves applied, clean says that no
\* toggle request of this id has started while another one was in flight
NoToggles(orig) == [orig |-> orig, saves |-> 0, clean |-> TRUE]

InitWith(stores, accounts) ==
    /\ env \in [uri : {"", "mongodb://db"}, secret : {"", "s3cret"}]
    /\ proc = "init"
    /\ users \in accounts
    /\ \E st \in stores :
          /\ projects = st.projects
          /\ tasks = st.tasks
          /\ tog = [t \in 1..IdRange |->
                      NoToggles(IF t <= Len(st.tasks) THEN st.tasks[t].completed ELSE FALSE)]
    /\ reqs = [s \in Slots |-> IdleReq]
    /\ conns = [c \in Conns |-> NoConn]
    /\ ver = 0
    /\ hist = <<[projects |-> projects, tasks |-> tasks]>>
    /\ nreq = 0

Init == InitWith(SeedStores, {<<>>})

(***************************************************************************)
(* Startup: the configuration checks at module load, then server.listen.   *)
(***************************************************************************)
\* module load without the JWT_SECRET check
StartupNoSecretCheck ==
    /\ proc = "init"
    /\ proc' = IF env.uri = "" THEN "exited" ELSE "listening"
    /\ UNCHANGED <<env, users, projects, tasks, reqs, conns, ver, nreq, tog, hist>>

Startup ==
    /\ proc = "init"
    /\ proc' = IF env.uri = "" THEN "exited"
               ELSE IF env.secret = "" THEN "exited"
               ELSE "listening"
    /\ UNCHANGED <<env, users, projects, tasks, reqs, conns, ver, nreq, tog, hist>>

(***************************************************************************)
(* Request arrival: the middleware chain up to the handler's first await.  *)
(***************************************************************************)
\* the request as the middleware stack hands it to the route
NewReq(route, token, id, body) ==
    [IdleReq EXCEPT !.route = route, !.pc = "handler", !.token = token,
                    !.user = authMiddleware(token), !.id = id, !.body = body,
                    !.u0 = Len(users)]

\* the route's chain: requireAuth where the route names it, then the handler
Guard(r, entry) ==
    IF Protected(r.route) /\ ~requireAuth(r.user)
    THEN [r EXCEPT !.pc = "done", !.res = Redirect("/login")]
    ELSE entry

\* a toggle request of task id t is in flight in a slot other than s
TogglingElsewhere(s, t) ==
    \E o \in Slots \ {s} :
        /\ reqs[o].route = "POST /tasks/:id/toggle"
        /\ reqs[o].id = t
        /\ reqs[o].pc \notin {"idle", "done"}

\* a slot is free before its first request and once its response is written;
\* the record of a finished request stays until the slot is taken again
Free(s) == reqs[s].pc \in {"idle", "done"}

\* the lowest free slot s takes the request r
Accept(s, r) ==
    /\ proc = "listening"
    /\ Free(s)
    /\ \A o \in 1..(s - 1) : ~Free(o)
    /\ nreq < MaxReq
    /\ nreq' = nreq + 1
    /\ reqs' = [reqs EXCEPT ![s] = r]
    /\ tog' = IF r.route = "POST /tasks/:id/toggle" /\ r.pc # "done"
                 /\ r.id \in DOMAIN tog /\ TogglingElsewhere(s, r.id)
              THEN [tog EXCEPT ![r.id].clean = FALSE]
              ELSE tog
    /\ UNCHANGED <<env, proc, users, projects, tasks, conns, ver, hist>>

\* The requests a route is tried with: every id and body with a valid token,
\* and one request for each token that does not verify.
Inputs(ids, bodies) ==
    {[token |-> "valid", id |-> i, body |-> b] : i \in ids, b \in bodies}
        \cup {[token |-> t, id |-> CHOOSE i \in ids : TRUE, body |-> NoBody] :
                  t \in Tokens \ {"valid"}}

\* the handler's outcome through catch (err) { next(err) }
Fail(r, err) == [r EXCEPT !.pc = "done", !.res = ErrorHandler(err)]

(***************************************************************************)
(* POST /projects                                                          *)
(***************************************************************************)
ProjectBodies ==
    {NoBody, [NoBody EXCEPT !.title = "A"], [NoBody EXCEPT !.name = "A"]}

PostProjectsEntry(r) ==
    LET title == Or(r.body.title, r.body.name)
    IN  IF title = ""
        THEN [r EXCEPT !.pc = "done",
                       !.res = Render("new-project", "Project name is required.")]
        ELSE [r EXCEPT !.pc = "create"]

PostProjects(s) ==
    \E in \in Inputs({BadId}, ProjectBodies) :
        LET r == NewReq("POST /projects", in.token, in.id, in.body)
        IN  Accept(s, Guard(r, PostProjectsEntry(r)))

\* await Project.create(...)
ProjectCreate(s) ==
    /\ reqs[s].route = "POST /projects"
    /\ reqs[s].pc = "create"
    /\ projects' = Append(projects,
                          ProjectDoc(Or(reqs[s].body.title, reqs[s].body.name), 0))
    /\ ver' = ver + 1
    /\ hist' = Append(hist, [projects |-> projects', tasks |-> tasks])
    /\ reqs' = [reqs EXCEPT ![s] = [@ EXCEPT !.pc = "stats", !.wver = ver + 1]]
    /\ UNCHANGED <<env, proc, users, tasks, conns, nreq, tog>>

(***************************************************************************)
(* POST /projects/:id/tasks                                                *)
(***************************************************************************)
TaskBodies == {[NoBody EXCEPT !.title = t] : t \in {"", "T"}}

PostTasksEntry(r) ==
    IF r.body.title = ""
    THEN Fail(r, "Task title required")
    ELSE [r EXCEPT !.pc = "create"]

PostTasks(s) ==
    \E in \in Inputs(ParamIds, TaskBodies) :
        LET r == NewReq("POST /projects/:id/tasks", in.token, in.id, in.body)
        IN  Accept(s, Guard(r, PostTasksEntry(r)))

\* an insert that looks the project up first and rejects a missing one
TaskCreateVerified(s) ==
    /\ reqs[s].route = "POST /projects/:id/tasks"
    /\ reqs[s].pc = "create"
    /\ IF reqs[s].id \notin 1..Len(projects)
       THEN /\ reqs' = [reqs EXCEPT ![s] = Fail(@, "Project not found")]
            /\ UNCHANGED <<tasks, ver, hist>>
       ELSE /\ tasks' = Append(tasks, TaskDoc(reqs[s].body.title, reqs[s].id))
            /\ ver' = ver + 1
            /\ hist' = Append(hist, [projects |-> projects, tasks |-> tasks'])
            /\ reqs' = [reqs EXCEPT ![s] = [@ EXCEPT !.pc = "stats", !.wver = ver + 1]]
    /\ UNCHANGED <<env, proc, users, projects, conns, nreq, tog>>

\* await Task.create(...): a malformed projectId fails the cast to ObjectId
TaskCreate(s) ==
    /\ reqs[s].route = "POST /projects/:id/tasks"
    /\ reqs[s].pc = "create"
    /\ IF reqs[s].id = BadId
       THEN /\ reqs' = [reqs EXCEPT ![s] = Fail(@, "ValidationError")]
            /\ UNCHANGED <<tasks, ver, hist>>
       ELSE /\ tasks' = Append(tasks, TaskDoc(reqs[s].body.title, reqs[s].id))
            /\ ver' = ver + 1
            /\ hist' = Append(hist, [projects |-> projects, tasks |-> tasks'])
            /\ reqs' = [reqs EXCEPT ![s] = [@ EXCEPT !.pc = "stats", !.wver = ver + 1]]
    /\ UNCHANGED <<env, proc, users, projects, conns, nreq, tog>>

(***************************************************************************)
(* POST /tasks/:id/toggle                                                  *)
(***************************************************************************)
ToggleEntry(r) == [r EXCEPT !.pc = "find"]

PostToggle(s) ==
    \E in \in Inputs(ParamIds, {NoBody}) :
        LET r == NewReq("POST /tasks/:id/toggle", in.token, in.id, in.body)
        IN  Accept(s, Guard(r, ToggleEntry(r)))

\* the flag set instead of negated
MarkCompleted(completed) == TRUE

\* !task.completed
Flip(completed) == ~completed

\* const task = await Task.findById(id); task.completed = !task.completed
\* A malformed id rejects with a CastError; an absent id yields null, and the
\* assignment to null.completed throws a TypeError inside the try block.
ToggleFind(s) ==
    /\ reqs[s].route = "POST /tasks/:id/toggle"
    /\ reqs[s].pc = "find"
    /\ LET r == reqs[s]
       IN  reqs' = [reqs EXCEPT ![s] =
              IF r.id = BadId THEN Fail(r, "CastError")
              ELSE IF r.id > Len(tasks) THEN Fail(r, "TypeError")
              ELSE [r EXCEPT !.pc = "save",
                             !.task = [id |-> r.id,
                                       completed |-> Flip(tasks[r.id].completed)]]]
    /\ UNCHANGED <<env, proc, users, projects, tasks, conns, ver, nreq, tog, hist>>

\* await task.save(): writes the modified path of the loaded document
ToggleSave(s) ==
    /\ reqs[s].route = "POST /tasks/:id/toggle"
    /\ reqs[s].pc = "save"
    /\ tasks' = [tasks EXCEPT ![reqs[s].task.id].completed = reqs[s].task.completed]
    /\ ver' = ver + 1
    /\ hist' = Append(hist, [projects |-> projects, tasks |-> tasks'])
    /\ reqs' = [reqs EXCEPT ![s] = [@ EXCEPT !.pc = "stats", !.wver = ver + 1]]
    /\ tog' = [tog EXCEPT ![reqs[s].task.id].saves = @ + 1]
    /\ UNCHANGED <<env, proc, users, projects, conns, nreq>>

(***************************************************************************)
(* computeStats inside a request: Project.find() and Task.find() are two   *)
(* store reads issued together; each executes at the store at its own time.*)
(***************************************************************************)
ReadProjects(s) ==
    /\ reqs[s].pc = "stats"
    /\ ~reqs[s].rp.done
    /\ reqs' = [reqs EXCEPT ![s].rp = [done |-> TRUE, ver |-> ver, docs |-> projects]]
    /\ UNCHANGED <<env, proc, users, projects, tasks, conns, ver, nreq, tog, hist>>

ReadTasks(s) ==
    /\ reqs[s].pc = "stats"
    /\ ~reqs[s].rt.done
    /\ reqs' = [reqs EXCEPT ![s].rt = [done |-> TRUE, ver |-> ver, docs |-> tasks]]
    /\ UNCHANGED <<env, proc, users, projects, tasks, conns, ver, nreq, tog, hist>>

Mutating == {"POST /projects", "POST /projects/:id/tasks", "POST /tasks/:id/toggle"}

\* where each mutating handler redirects once the broadcast is done
RedirectTarget(route) ==
    CASE route = "POST /projects" -> "/projects"
      [] route = "POST /projects/:id/tasks" -> "/projects/:id"
      [] route = "POST /tasks/:id/toggle" -> "back"

\* the rest of broadcastStats once both reads are back, and the handler's
\* continuation after await broadcastStats()
broadcastStats(s) ==
    /\ reqs[s].route \in Mutating
    /\ reqs[s].pc = "stats"
    /\ reqs[s].rp.done /\ reqs[s].rt.done
    /\ LET stats == computeStats(reqs[s].rp.docs, reqs[s].rt.docs)
       IN  /\ conns' = Fanout(StatsMessage(stats))
           /\ reqs' = [reqs EXCEPT ![s] =
                  [@ EXCEPT !.pc = "done", !.bcast = TRUE, !.stats = stats,
                            !.res = Redirect(RedirectTarget(reqs[s].route))]]
    /\ UNCHANGED <<env, proc, users, projects, tasks, ver, nreq, tog, hist>>

(***************************************************************************)
(* The push channel: wss.on("connection") and the sockets' life cycle.     *)
(***************************************************************************)
\* the handler without the info message ahead of its await
ConnectNoInfo(c) ==
    /\ proc = "listening"
    /\ conns[c].readyState = 0
    /\ \A o \in 1..(c - 1) : conns[o].readyState # 0
    /\ conns' = [conns EXCEPT ![c] =
          [NoConn EXCEPT !.readyState = 1, !.pc = "stats", !.openVer = ver]]
    /\ UNCHANGED <<env, proc, users, projects, tasks, reqs, ver, nreq, tog, hist>>

\* a socket is accepted (sockets are numbered in the order they connect): it
\* joins wss.clients OPEN, and the handler sends the info message and starts
\* computeStats before anything else can run
Connect(c) ==
    /\ proc = "listening"
    /\ conns[c].readyState = 0
    /\ \A o \in 1..(c - 1) : conns[o].readyState # 0
    /\ conns' = [conns EXCEPT ![c] =
          [NoConn EXCEPT !.readyState = 1, !.pc = "stats",
                         !.inbox = <<InfoMessage>>, !.openVer = ver]]
    /\ UNCHANGED <<env, proc, users, projects, tasks, reqs, ver, nreq, tog, hist>>

ConnReadProjects(c) ==
    /\ conns[c].pc = "stats"
    /\ ~conns[c].rp.done
    /\ conns' = [conns EXCEPT ![c].rp = [done |-> TRUE, ver |-> ver, docs |-> projects]]
    /\ UNCHANGED <<env, proc, users, projects, tasks, reqs, ver, nreq, tog, hist>>

ConnReadTasks(c) ==
    /\ conns[c].pc = "stats"
    /\ ~conns[c].rt.done
    /\ conns' = [conns EXCEPT ![c].rt = [done |-> TRUE, ver |-> ver, docs |-> tasks]]
    /\ UNCHANGED <<env, proc, users, projects, tasks, reqs, ver, nreq, tog, hist>>

\* ws.send(JSON.stringify({ type: "stats", data: stats })) after the await
ConnSendStats(c) ==
    /\ conns[c].pc = "stats"
    /\ conns[c].rp.done /\ conns[c].rt.done
    /\ LET stats == computeStats(conns[c].rp.docs, conns[c].rt.docs)
       IN  conns' = [conns EXCEPT ![c] =
              IF conns[c].fails
              THEN [@ EXCEPT !.pc = "done", !.lost = TRUE]
              ELSE [@ EXCEPT !.pc = "done", !.inbox = Append(@, StatsMessage(stats)),
                             !.init = Len(conns[c].inbox) + 1]]
    /\ UNCHANGED <<env, proc, users, projects, tasks, reqs, ver, nreq, tog, hist>>

\* a send to socket c is due: its own initial stats or a broadcast
SendDue(c) ==
    \/ conns[c].pc = "stats" /\ conns[c].rp.done /\ conns[c].rt.done
    \/ \E s \in Slots :
          /\ reqs[s].route \in {"POST /projects", "POST /projects/:id/tasks",
                                "POST /tasks/:id/toggle"}
          /\ reqs[s].pc = "stats" /\ reqs[s].rp.done /\ reqs[s].rt.done

\* the transport of an OPEN socket fails (the peer is gone, the write side
\* errors): readyState is still OPEN, frames sent from now on are lost.  The
\* failure shows at the next send only, so it is taken when a send is due.
ConnBreak(c) ==
    /\ conns[c].readyState = 1
    /\ ~conns[c].fails
    /\ SendDue(c)
    /\ conns' = [conns EXCEPT ![c].fails = TRUE]
    /\ UNCHANGED <<env, proc, users, projects, tasks, reqs, ver, nreq, tog, hist>>

\* the closing handshake starts: readyState CLOSING, still in wss.clients.
\* Nothing is delivered to the socket from here on, so what is left of its
\* connection handler is not followed.
ConnClosing(c) ==
    /\ conns[c].readyState = 1
    /\ conns' = [conns EXCEPT ![c] =
          [@ EXCEPT !.readyState = 2, !.pc = "done", !.rp = Unread, !.rt = Unread]]
    /\ UNCHANGED <<env, proc, users, projects, tasks, reqs, ver, nreq, tog, hist>>

\* the socket is gone: readyState CLOSED, removed from wss.clients
ConnClosed(c) ==
    /\ conns[c].readyState \in {1, 2}
    /\ conns' = [conns EXCEPT ![c] = ClosedConn]
    /\ UNCHANGED <<env, proc, users, projects, tasks, reqs, ver, nreq, tog, hist>>

(***************************************************************************)
(* The identity store and the password hash.                               *)
(***************************************************************************)
\* User.create({ name, email, passwordHash })
UserDoc(name, email, passwordHash) ==
    [name |-> name, email |-> email, passwordHash |-> passwordHash]

\* bcrypt.hash(password, 10): a digest that only the same password matches
Hash(password) == [digest |-> password]

\* bcrypt.compare(password, passwordHash)
Compare(password, passwordHash) == passwordHash.digest = password

\* User.findOne({ email }): the index of the first user with that email, 0 if none
FindByEmail(email) ==
    IF \E i \in 1..Len(users) : users[i].email = email
    THEN CHOOSE i \in 1..Len(users) :
             /\ users[i].email = email
             /\ \A j \in 1..(i - 1) : users[j].email # email
    ELSE 0

\* an identity store without the unique index
NoUniqueIndex(doc) == FALSE

\* the unique index on email: User.create rejects a document whose email is taken
DuplicateKey(doc) == \E i \in 1..Len(users) : users[i].email = doc.email

\* requests of a route that has no guard: any token, every body
OpenInputs(bodies) == {[token |-> t, id |-> BadId, body |-> b] : t \in Tokens, b \in bodies}

(***************************************************************************)
(* GET /register, GET /login, POST /logout                                 *)
(***************************************************************************)
\* if (req.user) return res.redirect("/"); res.render(form, { error: null })
FormEntry(r, view) ==
    IF r.user
    THEN [r EXCEPT !.pc = "done", !.res = Redirect("/")]
    ELSE [r EXCEPT !.pc = "done", !.res = Render(view, "")]

GetRegister(s) ==
    \E in \in OpenInputs({NoBody}) :
        LET r == NewReq("GET /register", in.token, in.id, in.body)
        IN  Accept(s, Guard(r, FormEntry(r, "register")))

GetLogin(s) ==
    \E in \in OpenInputs({NoBody}) :
        LET r == NewReq("GET /login", in.token, in.id, in.body)
        IN  Accept(s, Guard(r, FormEntry(r, "login")))

LogoutEntry(r) == [r EXCEPT !.pc = "done", !.res = ClearCookie(Redirect("/login"))]

PostLogout(s) ==
    \E in \in OpenInputs({NoBody}) :
        LET r == NewReq("POST /logout", in.token, in.id, in.body)
        IN  Accept(s, Guard(r, LogoutEntry(r)))

(***************************************************************************)
(* POST /register                                                          *)
(***************************************************************************)
RegisterBodies ==
    {[NoBody EXCEPT !.name = "N", !.email = e, !.password = "p", !.confirmPassword = c] :
         e \in {"a@x", "b@x"}, c \in {"p", "q"}}
    \cup {[NoBody EXCEPT !.email = "a@x", !.password = "p", !.confirmPassword = "p"],
          [NoBody EXCEPT !.name = "N", !.password = "p", !.confirmPassword = "p"],
          [NoBody EXCEPT !.name = "N", !.email = "a@x"]}

RegisterEntry(r) ==
    IF r.body.name = "" \/ r.body.email = "" \/ r.body.password = ""
    THEN [r EXCEPT !.pc = "done", !.res = Render("register", "All fields are required.")]
    ELSE IF r.body.password # r.body.confirmPassword
    THEN [r EXCEPT !.pc = "done", !.res = Render("register", "Passwords do not match.")]
    ELSE [r EXCEPT !.pc = "findOne"]

PostRegister(s) ==
    \E in \in OpenInputs(RegisterBodies) :
        LET r == NewReq("POST /register", in.token, in.id, in.body)
        IN  Accept(s, Guard(r, RegisterEntry(r)))

\* the handler without the existence check
RegisterNoLookup(s) ==
    /\ reqs[s].route = "POST /register"
    /\ reqs[s].pc = "findOne"
    /\ reqs' = [reqs EXCEPT ![s].pc = "create"]
    /\ UNCHANGED <<env, proc, users, projects, tasks, conns, ver, nreq, tog, hist>>

\* const existing = await User.findOne({ email }); if (existing) ...
RegisterFindOne(s) ==
    /\ reqs[s].route = "POST /register"
    /\ reqs[s].pc = "findOne"
    /\ LET r == reqs[s]
           existing == FindByEmail(r.body.email)
       IN  reqs' = [reqs EXCEPT ![s] =
              IF existing # 0
              THEN [r EXCEPT !.pc = "done", !.found = existing,
                             !.res = Render("register", "Email already registered.")]
              ELSE [r EXCEPT !.pc = "create"]]
    /\ UNCHANGED <<env, proc, users, projects, tasks, conns, ver, nreq, tog, hist>>

\* bcrypt.hash, then await User.create(...), then the cookie and the redirect
RegisterCreate(s) ==
    /\ reqs[s].route = "POST /register"
    /\ reqs[s].pc = "create"
    /\ LET r == reqs[s]
           user == UserDoc(r.body.name, r.body.email, Hash(r.body.password))
       IN  IF DuplicateKey(user)
           THEN /\ reqs' = [reqs EXCEPT ![s] = Fail(r, "E11000 duplicate key")]
                /\ UNCHANGED users
           ELSE /\ users' = Append(users, user)
                /\ reqs' = [reqs EXCEPT ![s] =
                       [r EXCEPT !.pc = "done", !.found = Len(users) + 1,
                                 !.res = SetCookie(Redirect("/"))]]
    /\ UNCHANGED <<env, proc, projects, tasks, conns, ver, nreq, tog, hist>>

(***************************************************************************)
(* POST /login                                                             *)
(***************************************************************************)
\* a password field the body does not carry (elsewhere a field that is absent
\* and one that is empty are both "", as the handlers test them with !field)
Absent == "undefined"

LoginBodies ==
    {[NoBody EXCEPT !.email = e, !.password = pw] :
         e \in {"a@x", "b@x"}, pw \in {"p", "q", Absent}}

LoginEntry(r) == [r EXCEPT !.pc = "findOne"]

PostLogin(s) ==
    \E in \in OpenInputs(LoginBodies) :
        LET r == NewReq("POST /login", in.token, in.id, in.body)
        IN  Accept(s, Guard(r, LoginEntry(r)))

\* a message of its own for an unknown email
NoSuchUserResponse == Render("login", "No account with that email.")

\* the response of if (!user) { return res.render("login", ...) }
NoUserResponse == Render("login", "Invalid email or password.")

\* the response of if (!ok) { return res.render("login", ...) }
BadPasswordResponse == Render("login", "Invalid email or password.")

\* const user = await User.findOne({ email }); if (!user) ...
LoginFindOne(s) ==
    /\ reqs[s].route = "POST /login"
    /\ reqs[s].pc = "findOne"
    /\ LET r == reqs[s]
           user == FindByEmail(r.body.email)
       IN  reqs' = [reqs EXCEPT ![s] =
              IF user = 0
              THEN [r EXCEPT !.pc = "done", !.res = NoUserResponse]
              ELSE [r EXCEPT !.pc = "compare", !.found = user]]
    /\ UNCHANGED <<env, proc, users, projects, tasks, conns, ver, nreq, tog, hist>>

\* const ok = await bcrypt.compare(password, user.passwordHash); if (!ok) ...
\* bcryptjs rejects an argument that is not a string: the catch block takes it
LoginCompare(s) ==
    /\ reqs[s].route = "POST /login"
    /\ reqs[s].pc = "compare"
    /\ LET r == reqs[s]
           ok == Compare(r.body.password, users[r.found].passwordHash)
       IN  reqs' = [reqs EXCEPT ![s] =
              IF r.body.password = Absent
              THEN Fail(r, "Illegal arguments: undefined, string")
              ELSE IF ~ok
              THEN [r EXCEPT !.pc = "done", !.res = BadPasswordResponse]
              ELSE [r EXCEPT !.pc = "done", !.res = SetCookie(Redirect("/"))]]
    /\ UNCHANGED <<env, proc, users, projects, tasks, conns, ver, nreq, tog, hist>>

(***************************************************************************)
(* The read-only protected routes.                                         *)
(***************************************************************************)
\* GET /: const stats = await computeStats(); res.render("dashboard", stats)
DashboardEntry(r) == [r EXCEPT !.pc = "stats"]

GetDashboard(s) ==
    \E in \in Inputs({BadId}, {NoBody}) :
        LET r == NewReq("GET /", in.token, in.id, in.body)
        IN  Accept(s, Guard(r, DashboardEntry(r)))

Dashboard(s) ==
    /\ reqs[s].route = "GET /"
    /\ reqs[s].pc = "stats"
    /\ reqs[s].rp.done /\ reqs[s].rt.done
    /\ reqs' = [reqs EXCEPT ![s] =
          [@ EXCEPT !.pc = "done",
                    !.stats = computeStats(reqs[s].rp.docs, reqs[s].rt.docs),
                    !.res = Render("dashboard", "")]]
    /\ UNCHANGED <<env, proc, users, projects, tasks, conns, ver, nreq, tog, hist>>

\* the projects as GET /projects and GET /projects/:id render them
FormatProject(ps, i) ==
    [id |-> i, name |-> ps[i].title, progress |-> OrZero(ps[i].progress)]

\* GET /projects
ProjectsEntry(r) == [r EXCEPT !.pc = "list"]

GetProjects(s) ==
    \E in \in Inputs({BadId}, {NoBody}) :
        LET r == NewReq("GET /projects", in.token, in.id, in.body)
        IN  Accept(s, Guard(r, ProjectsEntry(r)))

ProjectsList(s) ==
    /\ reqs[s].route = "GET /projects"
    /\ reqs[s].pc = "list"
    /\ reqs' = [reqs EXCEPT ![s] =
          [@ EXCEPT !.pc = "done",
                    !.list = [i \in 1..Len(projects) |-> FormatProject(projects, i)],
                    !.res = Render("projects", "")]]
    /\ UNCHANGED <<env, proc, users, projects, tasks, conns, ver, nreq, tog, hist>>

\* GET /projects/new
NewProjectEntry(r) == [r EXCEPT !.pc = "done", !.res = Render("new-project", "")]

GetNewProject(s) ==
    \E in \in Inputs({BadId}, {NoBody}) :
        LET r == NewReq("GET /projects/new", in.token, in.id, in.body)
        IN  Accept(s, Guard(r, NewProjectEntry(r)))

\* GET /projects/:id
ProjectDetailEntry(r) == [r EXCEPT !.pc = "find"]

GetProject(s) ==
    \E in \in Inputs(ParamIds, {NoBody}) :
        LET r == NewReq("GET /projects/:id", in.token, in.id, in.body)
        IN  Accept(s, Guard(r, ProjectDetailEntry(r)))

\* const project = await Project.findById(id); if (!project) throw ...
ProjectFind(s) ==
    /\ reqs[s].route = "GET /projects/:id"
    /\ reqs[s].pc = "find"
    /\ LET r == reqs[s]
       IN  reqs' = [reqs EXCEPT ![s] =
              IF r.id = BadId THEN Fail(r, "CastError")
              ELSE IF r.id > Len(projects) THEN Fail(r, "Project not found")
              ELSE [r EXCEPT !.pc = "tasks", !.found = r.id,
                             !.list = <<FormatProject(projects, r.id)>>]]
    /\ UNCHANGED <<env, proc, users, projects, tasks, conns, ver, nreq, tog, hist>>

\* Task.find({ projectId }): the tasks of ts that name the project, in order
RECURSIVE TasksOf(_, _)
TasksOf(ts, projectId) ==
    IF ts = <<>> THEN <<>>
    ELSE IF Head(ts).projectId = projectId
    THEN <<Head(ts)>> \o TasksOf(Tail(ts), projectId)
    ELSE TasksOf(Tail(ts), projectId)

\* const tasks = await Task.find({ projectId: project._id }); res.render(...)
ProjectTasks(s) ==
    /\ reqs[s].route = "GET /projects/:id"
    /\ reqs[s].pc = "tasks"
    /\ LET r == reqs[s]
       IN  reqs' = [reqs EXCEPT ![s] =
              [r EXCEPT !.pc = "done",
                        !.list = r.list \o TasksOf(tasks, r.found),
                        !.res = Render("project-detail", "")]]
    /\ UNCHANGED <<env, proc, users, projects, tasks, conns, ver, nreq, tog, hist>>

\* GET /tasks
TasksEntry(r) == [r EXCEPT !.pc = "find"]

GetTasks(s) ==
    \E in \in Inputs({BadId}, {NoBody}) :
        LET r == NewReq("GET /tasks", in.token, in.id, in.body)
        IN  Accept(s, Guard(r, TasksEntry(r)))

\* Task.find() of Task.find().populate("projectId")
TasksFind(s) ==
    /\ reqs[s].route = "GET /tasks"
    /\ reqs[s].pc = "find"
    /\ reqs' = [reqs EXCEPT ![s] =
          [@ EXCEPT !.pc = "populate",
                    !.rt = [done |-> TRUE, ver |-> ver, docs |-> tasks]]]
    /\ UNCHANGED <<env, proc, users, projects, tasks, conns, ver, nreq, tog, hist>>

\* the title looked up without the populated project
UnknownTitle(projectId) == "Unknown"

\* task.projectId ? task.projectId.title : "Unknown", where populate left the
\* project document, or null for a reference that names no project
PopulatedTitle(projectId) ==
    IF projectId \in 1..Len(projects) THEN projects[projectId].title ELSE "Unknown"

\* the populate query for the projects the tasks name, then formattedTasks
TasksPopulate(s) ==
    /\ reqs[s].route = "GET /tasks"
    /\ reqs[s].pc = "populate"
    /\ LET ts == reqs[s].rt.docs
           formattedTasks ==
               [i \in 1..Len(ts) |->
                   [id |-> i, title |-> ts[i].title, completed |-> ts[i].completed,
                    projectTitle |-> PopulatedTitle(ts[i].projectId)]]
       IN  reqs' = [reqs EXCEPT ![s] =
              [@ EXCEPT !.pc = "done",
                        !.rp = [done |-> TRUE, ver |-> ver, docs |-> projects],
                        !.list = formattedTasks,
                        !.res = Render("tasks", "")]]
    /\ UNCHANGED <<env, proc, users, projects, tasks, conns, ver, nreq, tog, hist>>

\* app.use("/api/projects", requireAuth, apiProjectsRouter): past the guard the
\* request is handed to the router
Delegated == [NoRes EXCEPT !.kind = "router", !.target = "/api/projects"]

ApiEntry(r) == [r EXCEPT !.pc = "done", !.res = Delegated]

ApiProjects(s) ==
    \E in \in Inputs({BadId}, {NoBody}) :
        LET r == NewReq("/api/projects", in.token, in.id, in.body)
        IN  Accept(s, Guard(r, ApiEntry(r)))

(***************************************************************************)
(* The mutating routes, concurrent requests in every slot, beside one      *)
(* socket.                                                                 *)
(***************************************************************************)
MutatingStep(s) ==
    \/ PostProjects(s) \/ ProjectCreate(s)
    \/ PostTasks(s) \/ TaskCreate(s)
    \/ PostToggle(s) \/ ToggleFind(s) \/ ToggleSave(s)
    \/ ReadProjects(s) \/ ReadTasks(s) \/ broadcastStats(s)

SocketStep(c) ==
    \/ Connect(c) \/ ConnReadProjects(c) \/ ConnReadTasks(c)
    \/ ConnSendStats(c) \/ ConnClosing(c) \/ ConnClosed(c)

Next ==
    \/ Startup
    \/ \E s \in Slots : MutatingStep(s)
    \/ SocketStep(1)

Spec == Init /\ [][Next]_vars

(***************************************************************************)
(* Registration and login, two requests at a time, over an identity store  *)
(* that is empty or holds one account.                                     *)
(***************************************************************************)
SeedAccounts == {<<>>, <<UserDoc("N", "a@x", Hash("p"))>>}

InitAuth == InitWith(SeedStores, SeedAccounts)

AuthStep(s) ==
    \/ GetRegister(s) \/ GetLogin(s) \/ PostLogout(s)
    \/ PostRegister(s) \/ RegisterFindOne(s) \/ RegisterCreate(s)
    \/ PostLogin(s) \/ LoginFindOne(s) \/ LoginCompare(s)

NextAuth ==
    \/ Startup
    \/ \E s \in Slots : AuthStep(s)

SpecAuth == InitAuth /\ [][NextAuth]_vars

(***************************************************************************)
(* Every route of the application, one request at a time, beside one       *)
(* socket.                                                                 *)
(***************************************************************************)
ReadStep(s) ==
    \/ GetDashboard(s) \/ Dashboard(s)
    \/ GetProjects(s) \/ ProjectsList(s)
    \/ GetNewProject(s)
    \/ GetProject(s) \/ ProjectFind(s) \/ ProjectTasks(s)
    \/ GetTasks(s) \/ TasksFind(s) \/ TasksPopulate(s)
    \/ ApiProjects(s)

NextRoutes ==
    \/ Startup
    \/ MutatingStep(1) \/ ReadStep(1) \/ AuthStep(1)
    \/ SocketStep(1)

SpecRoutes == InitAuth /\ [][NextRoutes]_vars

(***************************************************************************)
(* The push channel: every socket, beside one mutating request at a time.  *)
(***************************************************************************)
NextPush ==
    \/ Startup
    \/ MutatingStep(1)
    \/ \E c \in Conns : SocketStep(c)

SpecPush == Init /\ [][NextPush]_vars

(***************************************************************************)
(* One mutating request at a time and every socket, where the transport of *)
(* a socket may fail.                                                      *)
(***************************************************************************)
\* the sockets stay in wss.clients, OPEN, whether their transport works or not
OpenSocketStep(c) ==
    \/ Connect(c) \/ ConnReadProjects(c) \/ ConnReadTasks(c)
    \/ ConnSendStats(c) \/ ConnBreak(c)

NextLossy ==
    \/ Startup
    \/ MutatingStep(1)
    \/ \E c \in Conns : OpenSocketStep(c)

SpecLossy == Init /\ [][NextLossy]_vars

(***************************************************************************)
(* The mutating routes, concurrent requests in every slot, beside one      *)
(* socket, where a store operation of a request may reject.                *)
(***************************************************************************)
\* an awaited store operation of request s rejects: Project.create,
\* Task.create, Task.findById or task.save before anything is written, or one
\* of the two reads of computeStats after the write
StoreFail(s) ==
    /\ reqs[s].route \in Mutating
    /\ reqs[s].pc \in {"create", "find", "save", "stats"}
    /\ reqs' = [reqs EXCEPT ![s] = Fail(@, "MongoError")]
    /\ UNCHANGED <<env, proc, users, projects, tasks, conns, ver, nreq, tog, hist>>

NextFail ==
    \/ Startup
    \/ \E s \in Slots : MutatingStep(s) \/ StoreFail(s)
    \/ SocketStep(1)

SpecFail == Init /\ [][NextFail]_vars

(***************************************************************************)
(* One socket beside one mutating request at a time, with progress: a      *)
(* pending store read completes and the continuation of the connection     *)
(* handler runs, hence weak fairness on the three steps of the handler.    *)
(***************************************************************************)
NextLive ==
    \/ Startup
    \/ MutatingStep(1)
    \/ SocketStep(1)

FairSpec ==
    /\ Init /\ [][NextLive]_vars
    /\ WF_vars(ConnReadProjects(1))
    /\ WF_vars(ConnReadTasks(1))
    /\ WF_vars(ConnSendStats(1))

(***************************************************************************)
(* The dashboard over every store of up to MaxTasks tasks of which any     *)
(* number is completed.                                                    *)
(***************************************************************************)
TaskStore(totalTasks, completedTasks) ==
    [projects |-> <<ProjectDoc("P", 40)>>,
     tasks |-> [i \in 1..totalTasks |->
                  [title |-> "t", completed |-> i <= completedTasks, projectId |-> 1]]]

StatsStores == UNION {{TaskStore(t, c) : c \in 0..t} : t \in 0..MaxTasks}

InitStats == InitWith(StatsStores, {<<>>})

NextStats ==
    \/ Startup
    \/ GetDashboard(1) \/ ReadProjects(1) \/ ReadTasks(1) \/ Dashboard(1)

SpecStats == InitStats /\ [][NextStats]_vars

(***************************************************************************)
(* Claims.                                                                 *)
(***************************************************************************)
\* the step in which request s finishes its broadcast and sends its redirect
BroadcastDone(s) ==
    /\ reqs[s].pc = "stats"
    /\ reqs'[s].pc = "done"
    /\ reqs'[s].bcast

\* the step of a mutating request s that fans out and redirects: nothing has
\* been sent to the client before it, the snapshot is computed from reads made
\* at or after the request's own write, and every socket that is OPEN gets
\* exactly that snapshot appended
C1_BroadcastStep ==
    \A s \in Slots :
        BroadcastDone(s) =>
            /\ reqs[s].res = NoRes
            /\ reqs'[s].res.status = 302
            /\ reqs[s].wver >= 1
            /\ reqs[s].rp.ver >= reqs[s].wver
            /\ reqs[s].rt.ver >= reqs[s].wver
            /\ reqs'[s].stats = computeStats(reqs[s].rp.docs, reqs[s].rt.docs)
            /\ \A c \in Conns :
                  conns[c].readyState = 1 =>
                      conns'[c].inbox =
                          Append(conns[c].inbox, StatsMessage(reqs'[s].stats))

\* a mutating request that passed the guard has answered with its redirect
\* only after its broadcast
C1_RedirectAfterBroadcast ==
    \A s \in Slots :
        (reqs[s].route \in Mutating /\ reqs[s].user /\ reqs[s].res.status = 302)
            => reqs[s].bcast

\* socket c was opened after the write of request s and before any further write
OpenedAfter(c, s) ==
    /\ reqs[s].pc = "done" /\ reqs[s].bcast
    /\ conns[c].init > 0
    /\ conns[c].openVer = reqs[s].wver

\* all the store reads behind the broadcast of s and behind the initial
\* snapshot of c were made after the write of s and before any further write
ReadInWindow(c, s) ==
    /\ reqs[s].rp.ver = reqs[s].wver /\ reqs[s].rt.ver = reqs[s].wver
    /\ conns[c].rp.ver = reqs[s].wver /\ conns[c].rt.ver = reqs[s].wver

SameSnapshot(c, s) == conns[c].inbox[conns[c].init].data = reqs[s].stats

C1_SameSnapshotInWindow ==
    \A s \in Slots, c \in Conns :
        (OpenedAfter(c, s) /\ ReadInWindow(c, s)) => SameSnapshot(c, s)

\* C1 (as amended): when a mutating request succeeds, every socket that is
\* open at broadcast time is sent a stats snapshot read at or after the
\* request's write, before the redirect is sent; and a socket opened after the
\* write whose initial snapshot, like the broadcast, is read before any
\* further write receives the broadcast's snapshot as its initial stats.
C1_Broadcast ==
    /\ [][C1_BroadcastStep]_vars
    /\ [](C1_RedirectAfterBroadcast /\ C1_SameSnapshotInWindow)

\* C1 as stated, its second half: a socket opened after the write of s and
\* before any further write receives the snapshot s broadcast as its initial
\* stats message
C1_OpenedInWindowSameSnapshot ==
    \A s \in Slots, c \in Conns : OpenedAfter(c, s) => SameSnapshot(c, s)

\* a socket opened after the write, with all reads in the window, that also
\* was open at broadcast time and got the broadcast after its initial stats
C1_Witness ==
    \E s \in Slots, c \in Conns :
        /\ OpenedAfter(c, s) /\ ReadInWindow(c, s)
        /\ conns[c].readyState = 1
        /\ Len(conns[c].inbox) > conns[c].init
        /\ conns[c].inbox[Len(conns[c].inbox)] = StatsMessage(reqs[s].stats)

\* n / d rounded to the nearest integer, halves up (n >= 0, d > 0): the k
\* with k - 1/2 <= n/d < k + 1/2
RoundHalfUp(n, d) == (2 * n + d) \div (2 * d)

CompletedCount(ts) == Cardinality({i \in 1..Len(ts) : ts[i].completed})

\* C2: for every set of tasks, computeStats returns overallCompletion = 0
\* when there are no tasks and otherwise round-half-up(100 * completed /
\* total), with totalTasks and totalProjects the sizes of the collections
\* read (stated of the snapshot GET / renders)
C2_OverallCompletion ==
    \A s \in Slots :
        (reqs[s].route = "GET /" /\ reqs[s].res.target = "dashboard") =>
            LET ts == reqs[s].rt.docs
            IN  /\ reqs[s].stats.totalTasks = Len(ts)
                /\ reqs[s].stats.totalProjects = Len(reqs[s].rp.docs)
                /\ reqs[s].stats.overallCompletion =
                       IF Len(ts) = 0 THEN 0
                       ELSE RoundHalfUp(100 * CompletedCount(ts), Len(ts))

\* the email of request r was in the identity store when r arrived
PresentAtArrival(r) == \E i \in 1..r.u0 : users[i].email = r.body.email

\* r is a POST /register for an email that was already registered
DuplicateRegister(r) == r.route = "POST /register" /\ PresentAtArrival(r)

\* name, email and password are given and the two passwords agree
CompleteForm(body) ==
    /\ body.name # "" /\ body.email # "" /\ body.password # ""
    /\ body.password = body.confirmPassword

\* a duplicate registration never reaches User.create; when it is answered,
\* the answer is the registration form and sets no cookie, and the form
\* carries 'Email already registered.' if the submitted form was complete
C3_Rejected ==
    \A s \in Slots :
        DuplicateRegister(reqs[s]) =>
            /\ reqs[s].pc # "create"
            /\ reqs[s].pc = "done" =>
                  /\ reqs[s].res.status = 200
                  /\ reqs[s].res.kind = "render"
                  /\ reqs[s].res.target = "register"
                  /\ reqs[s].res.cookie = "keep"
                  /\ CompleteForm(reqs[s].body) =>
                        reqs[s].res.error = "Email already registered."

\* no step of a duplicate registration changes the identity store, and no
\* step at all changes or removes an existing user record
C3_StoreUnchanged ==
    /\ \A s \in Slots :
          (DuplicateRegister(reqs[s]) /\ reqs'[s] # reqs[s]
             /\ reqs[s].pc \notin {"idle", "done"}) => users' = users
    /\ \A i \in 1..Len(users) : Len(users') >= i /\ users'[i] = users[i]

\* C3 (as amended): a POST /register whose email is already in the identity
\* store and whose form is complete (name, email, password, matching
\* confirmation) re-renders the form with 'Email already registered.'; with
\* or without a complete form it creates no user record, leaves every
\* existing record unchanged and issues no session credential.
C3_DuplicateEmail == [][C3_StoreUnchanged]_vars /\ []C3_Rejected

\* C3 as stated: a POST /register whose email is already present re-renders
\* the form with 'Email already registered.', creates no record and issues no
\* credential
C3_AlwaysAlreadyRegistered ==
    \A s \in Slots :
        (DuplicateRegister(reqs[s]) /\ reqs[s].pc = "done") =>
            reqs[s].res = Render("register", "Email already registered.")

\* a complete duplicate registration has been answered with the message
C3_Witness ==
    \E s \in Slots :
        /\ DuplicateRegister(reqs[s]) /\ CompleteForm(reqs[s].body)
        /\ reqs[s].pc = "done"
        /\ reqs[s].res.error = "Email already registered."

C5_ToggleTwice ==
    \A t \in 1..IdRange :
        (t <= Len(tasks) /\ tog[t].clean) =>
            tasks[t].completed =
                (IF tog[t].saves % 2 = 0 THEN tog[t].orig ELSE ~tog[t].orig)

\* a task toggled twice, one request after the other, both answered
C5_Witness ==
    \E t \in 1..IdRange :
        /\ t <= Len(tasks) /\ tog[t].clean /\ tog[t].saves = 2
        /\ tasks[t].completed = tog[t].orig
        /\ \A s \in Slots : reqs[s].pc \in {"idle", "done"}

\* request s is a toggle about to look up a well-formed id that names no task
AbsentToggle(s) ==
    /\ reqs[s].route = "POST /tasks/:id/toggle"
    /\ reqs[s].pc = "find"
    /\ reqs[s].id # BadId
    /\ reqs[s].id > Len(tasks)

\* the step that answers such a toggle renders the error view with status
\* 500, changes no store and no socket, and leaves the server listening
C6_AbsentToggleStep ==
    \A s \in Slots :
        (AbsentToggle(s) /\ reqs'[s] # reqs[s]) =>
            /\ reqs'[s].pc = "done"
            /\ reqs'[s].res.status = 500
            /\ reqs'[s].res.kind = "render"
            /\ reqs'[s].res.target = "error"
            /\ ~reqs'[s].bcast
            /\ tasks' = tasks /\ projects' = projects /\ ver' = ver
            /\ conns' = conns
            /\ proc' = "listening"

\* an answered request means the server is still listening
C6_StillListening ==
    (\E s \in Slots : reqs[s].pc = "done") => proc = "listening"

\* C6: a POST /tasks/:id/toggle for a well-formed id that names no stored
\* task ends in the error view with HTTP 500: no task is changed or created,
\* no broadcast is sent, and the server keeps listening for later requests
C6_AbsentToggle == [][C6_AbsentToggleStep]_vars /\ []C6_StillListening

\* a toggle of an absent id has been answered with the error view while the
\* server goes on with another request
C6_Witness ==
    \E s, o \in Slots :
        /\ s # o
        /\ reqs[s].route = "POST /tasks/:id/toggle"
        /\ reqs[s].id # BadId /\ reqs[s].id > Len(tasks)
        /\ reqs[s].pc = "done" /\ reqs[s].res.status = 500
        /\ reqs[o].pc = "done" /\ reqs[o].bcast
        /\ proc = "listening"

\* the routes C7 lists as protected
GuardedRoutes ==
    {"GET /", "GET /projects", "GET /projects/new", "POST /projects",
     "GET /projects/:id", "POST /projects/:id/tasks", "POST /tasks/:id/toggle",
     "GET /tasks", "/api/projects"}

\* slot s holds a request to a listed route
Guarded(s) == reqs[s].route \in GuardedRoutes

\* a request to a listed route without a valid credential is answered at once
\* with the redirect to /login and has read nothing, written nothing and
\* broadcast nothing; one with a valid credential carries its identity and
\* is not turned away
C7_GuardOutcome ==
    \A s \in Slots :
        Guarded(s) =>
            IF reqs[s].token = "valid"
            THEN /\ reqs[s].user
                 /\ reqs[s].res.target # "/login"
            ELSE /\ ~reqs[s].user
                 /\ reqs[s].pc = "done"
                 /\ reqs[s].res = Redirect("/login")
                 /\ ~reqs[s].rp.done /\ ~reqs[s].rt.done
                 /\ reqs[s].list = <<>> /\ reqs[s].found = 0
                 /\ reqs[s].wver = 0
                 /\ ~reqs[s].bcast

\* the arrival of a request without a valid credential at a listed route
\* changes neither the domain store nor any socket
C7_GuardStep ==
    \A s \in Slots :
        (reqs'[s] # reqs[s] /\ reqs'[s].route \in GuardedRoutes
           /\ reqs'[s].token # "valid") =>
            /\ projects' = projects /\ tasks' = tasks /\ ver' = ver
            /\ conns' = conns

\* C7: every request to a protected route that carries no valid credential
\* is redirected to /login, reads or writes nothing in the domain store and
\* triggers no broadcast; a request with a valid credential passes the guard
C7_Guard == [][C7_GuardStep]_vars /\ []C7_GuardOutcome

\* a request with an expired credential has been turned away from GET /tasks
\* while a socket is open
C7_Witness ==
    \E s \in Slots :
        /\ reqs[s].route = "GET /tasks" /\ reqs[s].token = "expired"
        /\ reqs[s].res = Redirect("/login")
        /\ conns[1].readyState = 1

\* request s is a login that failed because no user has its email
NoUserFailure(s) ==
    /\ reqs[s].route = "POST /login" /\ reqs[s].pc = "done"
    /\ reqs[s].found = 0

\* request s is a login that failed because the password it gives does not
\* match the stored hash of the user found
BadPasswordFailure(s) ==
    /\ reqs[s].route = "POST /login" /\ reqs[s].pc = "done"
    /\ reqs[s].found # 0
    /\ reqs[s].body.password # Absent
    /\ ~Compare(reqs[s].body.password, users[reqs[s].found].passwordHash)

\* the two kinds of failure are answered alike: the login form, status 200,
\* one generic message, no cookie
C8_SameResponse ==
    \A s, o \in Slots :
        (NoUserFailure(s) /\ BadPasswordFailure(o)) =>
            /\ reqs[s].res = reqs[o].res
            /\ reqs[s].res.status = 200
            /\ reqs[s].res.kind = "render"
            /\ reqs[s].res.target = "login"
            /\ reqs[s].res.error # ""
            /\ reqs[s].res.cookie = "keep"

\* no step of a login request changes a store
C8_NoStoreChange ==
    \A s \in Slots :
        (reqs[s].route = "POST /login" /\ reqs'[s] # reqs[s]
           /\ reqs[s].pc \notin {"idle", "done"}) =>
            /\ users' = users /\ projects' = projects /\ tasks' = tasks

MissingField(r) ==
    \/ /\ r.route = "POST /register"
       /\ r.body.name = "" \/ r.body.email = "" \/ r.body.password = ""
    \/ /\ r.route = "POST /projects" /\ r.user
       /\ r.body.title = "" /\ r.body.name = ""
    \/ /\ r.route = "POST /projects/:id/tasks" /\ r.user
       /\ r.body.title = ""

\* C9: on POST /register, POST /projects and POST /projects/:id/tasks a
\* request that lacks a required field re-renders the form with an inline
\* message and HTTP 200, not the 500 error view, and performs no store write
\* and no broadcast
C9_MissingFieldRerender ==
    \A s \in Slots :
        (MissingField(reqs[s]) /\ reqs[s].pc = "done") =>
            /\ reqs[s].res.status = 200
            /\ reqs[s].res.kind = "render"
            /\ reqs[s].res.target # "error"
            /\ reqs[s].res.error # ""
            /\ reqs[s].wver = 0
            /\ ~reqs[s].bcast

\* the info message is the first message of every socket and everything
\* after it is a stats message; the initial stats message is one of them
C10_InfoFirst ==
    \A c \in Conns :
        /\ conns[c].inbox # <<>> =>
              /\ conns[c].inbox[1] = InfoMessage
              /\ \A i \in 2..Len(conns[c].inbox) : conns[c].inbox[i].type = "stats"
        /\ conns[c].readyState = 1 => conns[c].inbox # <<>>
        /\ conns[c].init > 0 =>
              /\ conns[c].init >= 2
              /\ conns[c].inbox[conns[c].init].type = "stats"

\* an open socket gets its initial stats message or stops being open
C10_InitialStats ==
    \A c \in Conns :
        (conns[c].readyState = 1) ~> (conns[c].init > 0 \/ conns[c].readyState # 1)

CreatesUnderProject(s) ==
    /\ reqs[s].route = "POST /projects/:id/tasks"
    /\ reqs[s].pc = "create"
    /\ reqs[s].id \in 1..Len(projects)

\* the insert appends a task with the submitted title, the project's id and
\* completed = false
C11_CreateStep ==
    \A s \in Slots :
        (CreatesUnderProject(s) /\ reqs'[s] # reqs[s]) =>
            tasks' = Append(tasks, [title |-> reqs[s].body.title,
                                    completed |-> FALSE,
                                    projectId |-> reqs[s].id])

\* a stored task keeps its title and its project, a stored project its title,
\* and a new task starts not completed
C11_Stable ==
    /\ \A i \in 1..Len(tasks) :
          /\ Len(tasks') >= i
          /\ tasks'[i].title = tasks[i].title
          /\ tasks'[i].projectId = tasks[i].projectId
    /\ \A i \in 1..Len(projects) :
          Len(projects') >= i /\ projects'[i].title = projects[i].title

\* the list GET /tasks renders has one entry for every task stored when the
\* route read the collection, with the task's title, its completed flag as
\* read and the title of the project it names
C11_Listed ==
    \A s \in Slots :
        (reqs[s].route = "GET /tasks" /\ reqs[s].res.target = "tasks") =>
            /\ reqs[s].rt.done
            /\ Len(reqs[s].list) = Len(reqs[s].rt.docs)
            /\ \A i \in 1..Len(reqs[s].list) :
                  /\ i <= Len(tasks)
                  /\ reqs[s].list[i].title = tasks[i].title
                  /\ reqs[s].list[i].completed = reqs[s].rt.docs[i].completed
                  /\ tasks[i].projectId \in 1..Len(reqs[s].rp.docs) =>
                        reqs[s].list[i].projectTitle = projects[tasks[i].projectId].title

\* the collection GET /tasks works on is the task collection as stored at the
\* moment of its Task.find()
C11_FindStep ==
    \A s \in Slots :
        (reqs[s].route = "GET /tasks" /\ reqs[s].pc = "find" /\ reqs'[s] # reqs[s]) =>
            reqs'[s].rt.docs = tasks

\* C11: a task created under an existing project P by POST
\* /projects/:id/tasks is stored with the submitted title, P's id and
\* completed = false, and the list of a later GET /tasks contains it with the
\* submitted title, the completed flag as stored and projectTitle = P's title
C11_TaskListing ==
    /\ [][C11_CreateStep /\ C11_Stable /\ C11_FindStep]_vars
    /\ []C11_Listed

\* GET /tasks has listed the task "T" created under project 1 by the request
\* before it
C11_Witness ==
    \E s \in Slots :
        /\ reqs[s].route = "GET /tasks" /\ reqs[s].res.target = "tasks"
        /\ Len(reqs[s].list) = 2
        /\ reqs[s].list[2] = [id |-> 2, title |-> "T", completed |-> FALSE,
                               projectTitle |-> projects[1].title]
        /\ tasks[2].projectId = 1

\* the connection string or the signing secret is missing
Misconfigured == env.uri = "" \/ env.secret = ""

\* a misconfigured process never listens, accepts no request and no socket
C12_NeverServes ==
    Misconfigured =>
        /\ proc # "listening"
        /\ nreq = 0
        /\ \A s \in Slots : reqs[s] = IdleReq
        /\ \A c \in Conns : conns[c] = NoConn

\* the only step of a misconfigured process is the one that ends it, and a
\* process that has exited takes no step
C12_Terminates ==
    /\ (proc = "init" /\ Misconfigured) => proc' = "exited"
    /\ proc = "exited" => proc' = "exited"

\* C12: if the storage connection string or the signing secret is missing at
\* startup the process terminates, never listens and never serves a request;
\* a request is served only in runs where both were present
C12_StartupFatal == [][C12_Terminates]_vars /\ []C12_NeverServes

\* the process has exited for want of the signing secret alone
C12_Witness == proc = "exited" /\ env.uri # "" /\ env.secret = ""

(***************************************************************************)
(* C13: a failure to send the stats message to one connection during a     *)
(* broadcast is swallowed: every other open connection is still sent the   *)
(* message and the request that triggered the broadcast still redirects.   *)
(***************************************************************************)
\* the broadcast step of a request: an OPEN socket whose transport has failed
\* loses the frame, every other OPEN socket has the message appended, and the
\* request answers with its redirect
C13_BroadcastStep ==
    \A s \in Slots :
        BroadcastDone(s) =>
            /\ reqs'[s].res.status = 302
            /\ reqs'[s].res.error = ""
            /\ \A c \in Conns :
                  conns[c].readyState = 1 =>
                      IF conns[c].fails
                      THEN conns'[c].inbox = conns[c].inbox
                      ELSE conns'[c].inbox =
                              Append(conns[c].inbox, StatsMessage(reqs'[s].stats))

C14_BroadcastStep ==
    \A s \in Slots :
        BroadcastDone(s) =>
            /\ reqs'[s].res.status = 302
            /\ reqs'[s].res.error = ""
            /\ \A c \in Conns :
                  IF conns[c].readyState = 1
                  THEN conns'[c].inbox =
                          Append(conns[c].inbox, StatsMessage(reqs'[s].stats))
                  ELSE conns'[c] = conns[c]

\* nothing is ever sent to a socket that is CLOSING or CLOSED: no step makes
\* its inbox grow, so a broadcast it missed is not made up for later
C14_NothingLater ==
    \A c \in Conns :
        conns[c].readyState \in {2, 3} =>
            /\ conns'[c].readyState \in {2, 3}
            /\ conns'[c].inbox \in {conns[c].inbox, <<>>}

C14_NonOpenSkipped == [][C14_BroadcastStep /\ C14_NothingLater]_vars

\* socket 1 is CLOSING with nothing but the info message, while socket 2,
\* accepted after it and with its own handler still reading, holds the message
\* of the request's broadcast
C14_Witness ==
    /\ conns[1].readyState = 2 /\ conns[1].inbox = <<InfoMessage>>
    /\ conns[2].readyState = 1 /\ conns[2].pc = "stats"
    /\ reqs[1].pc = "done" /\ reqs[1].bcast /\ reqs[1].res.status = 302
    /\ conns[2].inbox = <<InfoMessage, StatsMessage(reqs[1].stats)>>

(***************************************************************************)
(* C15: the per-project progress in every snapshot is the stored progress  *)
(* of that project and lies within 0..100; creating or toggling a task     *)
(* leaves the stored progress of every project unchanged.                  *)
(***************************************************************************)
\* a snapshot lists stored projects, each with its stored progress
C15_Verbatim(stats) ==
    /\ Len(stats.projects) <= Len(projects)
    /\ \A i \in 1..Len(stats.projects) :
          /\ stats.projects[i].progress = projects[i].progress
          /\ stats.projects[i].progress \in 0..100

\* every snapshot broadcast by a request or delivered to a socket
C15_SnapshotProgress ==
    /\ \A s \in Slots : reqs[s].bcast => C15_Verbatim(reqs[s].stats)
    /\ \A c \in Conns : \A k \in 1..Len(conns[c].inbox) :
          conns[c].inbox[k].type = "stats" => C15_Verbatim(conns[c].inbox[k].data)

\* no step changes the stored progress of a project, and a step that writes
\* the task collection leaves the project collection as it is
C15_StoredProgressKept ==
    /\ Len(projects') >= Len(projects)
    /\ \A i \in 1..Len(projects) : projects'[i].progress = projects[i].progress
    /\ tasks' # tasks => projects' = projects

C15_Progress == []C15_SnapshotProgress /\ [][C15_StoredProgressKept]_vars

\* the seeded task has been toggled to not completed and a snapshot taken
\* after it, with overallCompletion 0, still gives project "P" its stored 40
C15_Witness ==
    /\ Len(tasks) = 1 /\ ~tasks[1].completed
    /\ \E k \in 1..Len(conns[1].inbox) :
          /\ conns[1].inbox[k].type = "stats"
          /\ conns[1].inbox[k].data.overallCompletion = 0
          /\ conns[1].inbox[k].data.totalTasks = 1
          /\ conns[1].inbox[k].data.projects[1].progress = 40

(***************************************************************************)
(* C16: POST /projects/:id/tasks with a non-empty title and a well-formed  *)
(* id that names no project inserts the task, broadcasts and redirects;    *)
(* GET /tasks then lists the task with projectTitle "Unknown".             *)
(***************************************************************************)
\* request s is about to insert a task whose project id is well-formed and
\* names no stored project
CreatesUnderAbsent(s) ==
    /\ reqs[s].route = "POST /projects/:id/tasks"
    /\ reqs[s].pc = "create"
    /\ reqs[s].id # BadId
    /\ reqs[s].id \notin 1..Len(projects)

\* the insert is not refused: the task is stored with the dangling reference
\* and the handler goes on to its broadcast
C16_CreateStep ==
    \A s \in Slots :
        (CreatesUnderAbsent(s) /\ reqs'[s] # reqs[s]) =>
            /\ reqs[s].body.title # ""
            /\ tasks' = Append(tasks, [title |-> reqs[s].body.title,
                                       completed |-> FALSE,
                                       projectId |-> reqs[s].id])
            /\ reqs'[s].pc = "stats"

\* a task request that has written ends with the broadcast and the redirect
\* to the project page
C16_Redirects ==
    \A s \in Slots :
        (/\ reqs[s].route = "POST /projects/:id/tasks"
         /\ reqs[s].pc = "done" /\ reqs[s].wver >= 1) =>
            /\ reqs[s].bcast
            /\ reqs[s].res = Redirect("/projects/:id")

\* the listing step of GET /tasks: a task that names no stored project is
\* listed with its title and projectTitle "Unknown"
C16_ListStep ==
    \A s \in Slots :
        (reqs[s].route = "GET /tasks" /\ reqs[s].pc = "populate" /\ reqs'[s] # reqs[s]) =>
            /\ Len(reqs'[s].list) = Len(reqs[s].rt.docs)
            /\ \A i \in 1..Len(reqs[s].rt.docs) :
                  reqs[s].rt.docs[i].projectId \notin 1..Len(projects) =>
                      /\ reqs'[s].list[i].title = reqs[s].rt.docs[i].title
                      /\ reqs'[s].list[i].projectTitle = "Unknown"

C16_DanglingTask == [][C16_CreateStep /\ C16_ListStep]_vars /\ []C16_Redirects

\* GET /tasks has listed the task "T" that the request before it created
\* under the absent project id 2
C16_Witness ==
    \E s \in Slots :
        /\ reqs[s].route = "GET /tasks" /\ reqs[s].res.target = "tasks"
        /\ Len(projects) = 1
        /\ Len(tasks) = 2 /\ tasks[2].projectId = 2
        /\ reqs[s].list[2] = [id |-> 2, title |-> "T", completed |-> FALSE,
                               projectTitle |-> "Unknown"]

(***************************************************************************)
(* C17: at quiescence the last stats message delivered to each open        *)
(* connection is computeStats of the current store.                        *)
(***************************************************************************)
\* no request is in flight and no connection handler has a send left to do
Quiescent ==
    /\ \A s \in Slots : Free(s)
    /\ \A c \in Conns : conns[c].readyState = 1 => conns[c].pc = "done"

\* C17: when nothing is in flight, every open connection that has been sent a
\* stats message has as its last message the snapshot of the store as it is
C17_LastIsCurrent ==
    Quiescent =>
        \A c \in Conns :
            (conns[c].readyState = 1 /\ Len(conns[c].inbox) >= 2) =>
                conns[c].inbox[Len(conns[c].inbox)] =
                    StatsMessage(computeStats(projects, tasks))

(***************************************************************************)
(* C18: under any interleaving of concurrent toggles of one task, after n  *)
(* completed toggles the flag is the original value negated n times.       *)
(***************************************************************************)
\* a toggle request of task id t is in flight in some slot
Toggling(t) ==
    \E s \in Slots :
        /\ reqs[s].route = "POST /tasks/:id/toggle"
        /\ reqs[s].id = t
        /\ ~Free(s)

\* C18: once the toggles of task t have all been answered, however they were
\* interleaved, the flag is the original value if the number of toggles that
\* saved is even and its negation if that number is odd
C18_NoLostToggle ==
    \A t \in 1..IdRange :
        (t <= Len(tasks) /\ ~Toggling(t)) =>
            tasks[t].completed =
                (IF tog[t].saves % 2 = 0 THEN tog[t].orig ELSE ~tog[t].orig)

(***************************************************************************)
(* C20: every snapshot of computeStats is the aggregate of one single      *)
(* store state that existed during the computation.                        *)
(***************************************************************************)
\* the store states that existed between the two reads rp and rt
During(rp, rt) ==
    LET lo == IF rp.ver <= rt.ver THEN rp.ver ELSE rt.ver
        hi == IF rp.ver <= rt.ver THEN rt.ver ELSE rp.ver
    IN  {hist[v + 1] : v \in lo..hi}

\* the snapshot computed from the reads rp and rt is the aggregate of one of
\* those store states
OfOneState(rp, rt) ==
    \E st \in During(rp, rt) :
        computeStats(rp.docs, rt.docs) = computeStats(st.projects, st.tasks)

\* C20: whenever a computeStats call, of a request or of a connection
\* handler, has both its reads back, the snapshot it computes from them is
\* the aggregate of a single store state that existed between the two reads
C20_SingleState ==
    /\ \A s \in Slots :
          (reqs[s].route \in Mutating /\ reqs[s].rp.done /\ reqs[s].rt.done) =>
              OfOneState(reqs[s].rp, reqs[s].rt)
    /\ \A c \in Conns :
          (conns[c].rp.done /\ conns[c].rt.done) =>
              OfOneState(conns[c].rp, conns[c].rt)

(***************************************************************************)
(* C19: every mutating request that ends with the 500 view leaves the      *)
(* project and task collections exactly as they were before it, also when  *)
(* its store write succeeds and the broadcast it awaits then fails.        *)
(***************************************************************************)
\* C19: a mutating request answered with the error view has written nothing:
\* no version of the store is its write, and the version it wrote, if any,
\* does not differ from the one before
C19_ErrorLeavesStore ==
    \A s \in Slots :
        (/\ reqs[s].route \in Mutating
         /\ reqs[s].pc = "done"
         /\ reqs[s].res.status = 500) =>
            \/ reqs[s].wver = 0
            \/ hist[reqs[s].wver + 1] = hist[reqs[s].wver]

====
